---- MODULE Spec2Model ----
(***************************************************************************)
(* Live-stream session coordinator of product-v1-client.                   *)
(*                                                                         *)
(* HostRoomPage (the seller, offerer) and JoinRoomPage (a viewer,          *)
(* answerer) of src/modules/livestream/pages/MainAppPage.tsx; App.tsx      *)
(* holds the same two components line for line.  Every socket handler is   *)
(* one action; every `await` inside a handler is a suspension point: the   *)
(* handler's continuation is a task that a later action resumes, so other  *)
(* handlers interleave between the two.  The signaling server is the       *)
(* environment: it may deliver any event of the wire format to a           *)
(* connected socket.                                                       *)
(***************************************************************************)
EXTENDS Integers, Sequences, FiniteSets, Bags, TLC

\* ------------------------------------------------------------------ bounds
\* inbound socket events delivered in one run of Spec (both pages together)
MaxIn == 3
\* comment_created events delivered to each page in one run of SpecChat
MaxComments == 42
\* distinct catalog items the host shares in SpecProducts
NumProducts == 11
\* product_shared events that repeat an item already shared (SpecProducts)
MaxReshares == 1
\* inbound signaling events delivered in one run of SpecSignal
MaxSignals == 3
\* candidates a page sends to one remote participant
MaxLocalCands == 1
\* runs of the host effect in one run of SpecLife
MaxRuns == 2
\* participant_joined / participant_left events in one run of SpecLife
MaxLifeIn == 2
\* characters of the longest text typed into a comment input
MaxText == 3
\* send_comment messages a page emits, and comment_created events the
\* server hands back, in one run of SpecComment
MaxSends == 1

\* -------------------------------------------------------- program constants
\* prev.slice(-39): the comments kept before the new one is appended
KeepPrev == 39
\* .slice(0, 10): the featured-product list's cap
ProductCap == 10

\* ------------------------------------------------------------- identities
\* user ids are positive numbers: the host effect returns while sellerId is
\* falsy, a viewer id is profile.sub or Math.floor(Math.random()*1000000)+1
SellerId == 10
ViewerId == 20
OtherViewerId == 21
\* an optional toUserId that is not on the wire (undefined)
NoUser == 0
RoomId == "r1"
OtherRoom == "r2"
Rooms == {RoomId, OtherRoom}
\* the remote ids the host hears of
HostPeerIds == {ViewerId, OtherViewerId}
\* the remote ids the viewer hears of
ViewerPeerIds == {SellerId, OtherViewerId}
SignalTypes == {"offer", "answer", "ice-candidate"}
Roles == {"seller", "viewer"}
ViewerCounts == 1 .. 2

VARIABLES
    route,          \* the page App() mounts in this window, by the URL's path
    \* ---- HostRoomPage
    hPhase,         \* where setup() stands
    active,         \* the effect's `active` flag
    streamRef,      \* "none" | "live" | "stopped"
    hSocket,        \* "none" | "connecting" | "connected" | "closed"
    peersRef,       \* viewer id -> index into hPcs, 0 when the Map has no entry
    hPcs,           \* every RTCPeerConnection the host page created
    hTasks,         \* suspended handler continuations, in the order of their calls
    hSent,          \* bag of the messages the host socket emitted
    hViewerCount,
    hComments,
    \* ---- JoinRoomPage
    vJoin,          \* joinMutation: "idle" | "pending" | "success" | "error", and
                    \* "error-seen" once the socket effect has re-run on the error
    vSocket,
    pcRef,          \* index into vPcs, 0 for null
    vPcs,
    vTasks,
    vSent,
    vViewerCount,
    vComments,
    featuredProducts,
    \* ---- history
    nIn,            \* inbound events delivered so far
    lastIn,         \* the last inbound event and the page it was delivered to
    hJoins,         \* viewer id -> participant_joined events the host accepted
    hAllComments,   \* every comment_created the host accepted, in arrival order
    vAllComments,
    shared,         \* every product_shared the viewer accepted, in arrival order
    hPeerLog,       \* viewer id -> what the host's socket has seen of that viewer
    vHeard,         \* the ids whose stream_signal the viewer accepted
    hPush,          \* viewerCount of the last viewer_count_updated of the room
    vPush,
    \* ---- the host effect's runs
    hStreams,       \* every MediaStream getUserMedia resolved with
    hStale,         \* bag of setup() calls of superseded runs, still suspended
    hRuns,          \* runs of the host effect so far
    \* ---- the signaling server, when both pages are open
    hOut,           \* emitted by the host, not yet relayed
    vOut,
    \* ---- the comment form of each page
    hMessage,       \* the `message` state: the text in the comment input
    vMessage,
    hBuffered,      \* bag of the messages emitted while the socket was not
                    \* connected, which the socket holds back
    vBuffered

hostVars == <<hPhase, active, streamRef, hSocket, peersRef, hPcs, hTasks, hSent,
              hViewerCount, hComments>>
viewerVars == <<vJoin, vSocket, pcRef, vPcs, vTasks, vSent, vViewerCount,
                vComments, featuredProducts>>
histVars == <<nIn, lastIn, hJoins, hAllComments, vAllComments, shared>>
obsVars == <<hPeerLog, vHeard, hPush, vPush>>
lifeVars == <<hStreams, hStale, hRuns>>
wireVars == <<hOut, vOut>>
formVars == <<hMessage, vMessage, hBuffered, vBuffered>>
vars == <<route, hostVars, viewerVars, histVars, obsVars, lifeVars, wireVars,
          formVars>>

\* ------------------------------------------------------------ wire format
\* One record shape for every event of the table; a field an event does not
\* carry keeps its blank value.
Blank ==
    [ev |-> "none", roomId |-> "", userId |-> NoUser, role |-> "",
     fromUserId |-> NoUser, toUserId |-> NoUser, typ |-> "", body |-> FALSE,
     viewerCount |-> 0, message |-> 0, productId |-> 0, productRev |-> 0]

JoinRoom(r, u, role) ==
    [Blank EXCEPT !.ev = "join_room", !.roomId = r, !.userId = u, !.role = role]
ViewerCountUpdated(r, n) ==
    [Blank EXCEPT !.ev = "viewer_count_updated", !.roomId = r, !.viewerCount = n]
ParticipantJoined(r, u, role) ==
    [Blank EXCEPT !.ev = "participant_joined", !.roomId = r, !.userId = u,
                  !.role = role]
ParticipantLeft(r, u) ==
    [Blank EXCEPT !.ev = "participant_left", !.roomId = r, !.userId = u]
CommentCreated(r, u, msg) ==
    [Blank EXCEPT !.ev = "comment_created", !.roomId = r, !.userId = u,
                  !.message = msg]
ProductShared(r, id, rev) ==
    [Blank EXCEPT !.ev = "product_shared", !.roomId = r, !.productId = id,
                  !.productRev = rev]
StreamSignal(r, from, to, typ, body) ==
    [Blank EXCEPT !.ev = "stream_signal", !.roomId = r, !.fromUserId = from,
                  !.toUserId = to, !.typ = typ, !.body = body]

\* a handler without its room check
InAnyRoom(m) == TRUE

\* payload.roomId === roomId, the room check every handler starts with
InRoom(m) == m.roomId = RoomId

\* JavaScript truthiness of an optional numeric id: undefined and 0 are
\* falsy, and NoUser stands for both since no participant has the id 0
Truthy(id) == id # NoUser

\* ------------------------------------------------------ RTCPeerConnection
\* new RTCPeerConnection(rtcConfig): for remote participant `peer`, with the
\* local tracks attached or not
NewPeerConnection(peer, tracks) ==
    [peer |-> peer, sig |-> "stable", hasLocal |-> FALSE, hasRemote |-> FALSE,
     cands |-> 0, tracks |-> tracks]

\* a close() that leaves the connection as it is
KeepPcOpen(pc) == pc

\* pc.close()
ClosePc(pc) == [pc EXCEPT !.sig = "closed"]

\* setLocalDescription(offer) that would also resolve on a closed connection
CanSetLocalOfferClosed(pc) == pc.sig # "have-remote-offer"

\* setLocalDescription(offer) resolves on an open connection that is not
\* answering; it rejects otherwise
CanSetLocalOffer(pc) == pc.sig \in {"stable", "have-local-offer"}
SetLocalOffer(pc) == [pc EXCEPT !.sig = "have-local-offer", !.hasLocal = TRUE]

\* setRemoteDescription(answer) resolves only while an offer is outstanding
CanSetRemoteAnswer(pc) == pc.sig = "have-local-offer"
SetRemoteAnswer(pc) == [pc EXCEPT !.sig = "stable", !.hasRemote = TRUE]

\* setRemoteDescription(offer)
CanSetRemoteOffer(pc) == pc.sig \in {"stable", "have-remote-offer"}
SetRemoteOffer(pc) == [pc EXCEPT !.sig = "have-remote-offer", !.hasRemote = TRUE]

\* createAnswer() and setLocalDescription(answer) need a remote offer
CanAnswer(pc) == pc.sig = "have-remote-offer"
SetLocalAnswer(pc) == [pc EXCEPT !.sig = "stable", !.hasLocal = TRUE]

\* addIceCandidate rejects on a closed connection and on one without a
\* remote description
CanAddIce(pc) == pc.sig # "closed" /\ pc.hasRemote
AddIce(pc) == [pc EXCEPT !.cands = @ + 1]

Task(op, pc, user) == [op |-> op, pc |-> pc, user |-> user]

\* pending calls settling in any order, whatever was called before them
ReadyAnyOrder(q, t) == \E k \in DOMAIN q : q[k] = t

\* A connection runs its operations one at a time, in the order they were
\* called (its operations chain): a pending call settles once no earlier
\* call on the same connection is pending.
Ready(q, t) ==
    \E k \in DOMAIN q : q[k] = t /\ \A j \in 1 .. (k - 1) : q[j].pc # t.pc
\* the queue without the first occurrence of t
Take(q, t) ==
    LET k == CHOOSE i \in DOMAIN q : q[i] = t /\ \A j \in 1 .. (i - 1) : q[j] # t
    IN  SubSeq(q, 1, k - 1) \o SubSeq(q, k + 1, Len(q))

One(x) == SetToBag({x})

\* no viewer_count_updated of the room has arrived
NoPush == -1

\* what the host's socket has seen of a viewer: `contact` since the viewer
\* last left (a participant_joined or a stream_signal accepted), `heard` a
\* stream_signal accepted at any time, `gone` whether its participant_left
\* was handled and whether it joined again after that
NoContact == [contact |-> FALSE, heard |-> FALSE, gone |-> "no"]

Joined(log) ==
    [log EXCEPT !.contact = TRUE, !.gone = IF @ = "left" THEN "back" ELSE @]
Left(log) == [log EXCEPT !.contact = FALSE, !.gone = "left"]
Heard(log) == [log EXCEPT !.contact = TRUE, !.heard = TRUE]

\* a MediaStream: whether the page stored it in streamRef, and how many times
\* its tracks were stopped
Stream(stored, stops) == [stored |-> stored, stops |-> stops]

\* ------------------------------------------------------------------- Init
\* the page state after the first render
Fresh ==
    /\ hPhase = "init"
    /\ active = FALSE
    /\ streamRef = "none"
    /\ hSocket = "none"
    /\ peersRef = [v \in HostPeerIds |-> 0]
    /\ hPcs = <<>>
    /\ hTasks = <<>>
    /\ hSent = EmptyBag
    /\ hViewerCount = 0
    /\ hComments = <<>>
    /\ vJoin = "idle"
    /\ vSocket = "none"
    /\ pcRef = 0
    /\ vPcs = <<>>
    /\ vTasks = <<>>
    /\ vSent = EmptyBag
    /\ vViewerCount = 0
    /\ vComments = <<>>
    /\ featuredProducts = <<>>
    /\ nIn = 0
    /\ lastIn = [dst |-> "none", ev |-> "none", roomId |-> "", user |-> NoUser,
                 toUserId |-> NoUser, typ |-> ""]
    /\ hJoins = [v \in HostPeerIds |-> 0]
    /\ hAllComments = <<>>
    /\ vAllComments = <<>>
    /\ shared = <<>>
    /\ hPeerLog = [v \in HostPeerIds |-> NoContact]
    /\ vHeard = {}
    /\ hPush = NoPush
    /\ vPush = NoPush
    /\ hStreams = <<>>
    /\ hStale = EmptyBag
    /\ hRuns = 0
    /\ hOut = <<>>
    /\ vOut = <<>>
    /\ hMessage = <<>>
    /\ vMessage = <<>>
    /\ hBuffered = EmptyBag
    /\ vBuffered = EmptyBag

\* one window, on the host's or on a viewer's page
Init == route \in {"host-room", "join-room"} /\ Fresh

\* what the history keeps of an inbound event: its name, its room, the user
\* it is about (userId or fromUserId), its recipient and its signal type
Tag(dst, m) ==
    [dst |-> dst, ev |-> m.ev, roomId |-> m.roomId,
     user |-> IF m.ev = "stream_signal" THEN m.fromUserId ELSE m.userId,
     toUserId |-> m.toUserId, typ |-> m.typ]

\* an inbound event reaches a page's handler; with both pages open it is the
\* server's relay of the oldest message the other page emitted
Delivered(dst, m) ==
    /\ nIn' = nIn + 1
    /\ lastIn' = Tag(dst, m)
    /\ hOut' = IF route = "both" /\ dst = "viewer" THEN Tail(hOut) ELSE hOut
    /\ vOut' = IF route = "both" /\ dst = "host" THEN Tail(vOut) ELSE vOut

\* ============================================================ HostRoomPage

\* ensurePeer that builds the connection and leaves the registry as it was
EnsurePeerUnregistered(viewerId) ==
    [reg |-> peersRef,
     pcs |-> Append(hPcs, NewPeerConnection(viewerId, streamRef # "none")),
     pc  |-> Len(hPcs) + 1]

\* ensurePeer that adds no track to the connection it creates
EnsurePeerNoTracks(viewerId) ==
    [reg |-> [peersRef EXCEPT ![viewerId] = Len(hPcs) + 1],
     pcs |-> Append(hPcs, NewPeerConnection(viewerId, FALSE)),
     pc  |-> Len(hPcs) + 1]

\* ensurePeer(viewerId): the registry, the connections and the connection
\* returned
EnsurePeerMissing(viewerId) ==
    [reg |-> [peersRef EXCEPT ![viewerId] = Len(hPcs) + 1],
     pcs |-> Append(hPcs, NewPeerConnection(viewerId, streamRef # "none")),
     pc  |-> Len(hPcs) + 1]

\* ensurePeer without its lookup of the existing entry
EnsurePeerNoLookup(viewerId) == EnsurePeerMissing(viewerId)

EnsurePeer(viewerId) ==
    IF peersRef[viewerId] # 0
    THEN [reg |-> peersRef, pcs |-> hPcs, pc |-> peersRef[viewerId]]
    ELSE EnsurePeerMissing(viewerId)

\* socket.emit on the host's socket: a disconnected socket sends nothing
HostEmit(m) == IF hSocket = "connected" THEN hSent (+) One(m) ELSE hSent

\* what is emitted reaches the server, which relays it when the other page
\* is open too
Relayed(out, m) == IF route = "both" THEN Append(out, m) ELSE out
HostPost(m) == IF hSocket = "connected" THEN Relayed(hOut, m) ELSE hOut

\* streamRef.current: the stream stored last, 0 for null
Current(streams) ==
    IF \E i \in DOMAIN streams : streams[i].stored
    THEN CHOOSE i \in DOMAIN streams :
            streams[i].stored /\ \A j \in DOMAIN streams : streams[j].stored => j <= i
    ELSE 0

\* streamRef.current?.getTracks().forEach((track) => track.stop())
StopCurrent(streams) ==
    IF Current(streams) = 0 THEN streams
    ELSE [streams EXCEPT ![Current(streams)].stops = @ + 1]

HostRoute == route \in {"host-room", "both"}
ViewerRoute == route \in {"join-room", "both"}

\* the effect runs once the profile is loaded: active = true, void setup(),
\* which calls api.post(.../join)
HostEffect ==
    /\ HostRoute
    /\ hPhase = "init"
    /\ hPhase' = "joining"
    /\ active' = TRUE
    /\ hRuns' = hRuns + 1
    /\ UNCHANGED <<streamRef, hSocket, peersRef, hPcs, hTasks, hSent,
                   hViewerCount, hComments, viewerVars, histVars, route, formVars,
                   obsVars, hStreams, hStale, wireVars>>

\* the room-join request resolves: setup calls getUserMedia
HostJoinResolved ==
    /\ hPhase = "joining"
    /\ hPhase' = "media"
    /\ UNCHANGED <<active, streamRef, hSocket, peersRef, hPcs, hTasks, hSent,
                   hViewerCount, hComments, viewerVars, histVars, route, formVars,
                   obsVars, lifeVars, wireVars>>

\* the room-join request rejects: setup() ends rejected
HostJoinRejected ==
    /\ hPhase = "joining"
    /\ hPhase' = "join-rejected"
    /\ UNCHANGED <<active, streamRef, hSocket, peersRef, hPcs, hTasks, hSent,
                   hViewerCount, hComments, viewerVars, histVars, route, formVars,
                   obsVars, lifeVars, wireVars>>

\* setup() going on after getUserMedia without looking at `active`
HostMediaResolvedUnchecked ==
    /\ hPhase = "media"
    /\ hPhase' = "live"
    /\ hStreams' = Append(hStreams, Stream(TRUE, 0))
    /\ streamRef' = "live"
    /\ hSocket' = "connecting"
    /\ UNCHANGED <<active, peersRef, hPcs, hTasks, hSent, hViewerCount,
                   hComments, viewerVars, histVars, route, formVars,
                   obsVars, hStale, hRuns, wireVars>>

\* getUserMedia resolves: the stream is stopped when the effect was cleaned
\* up meanwhile, else it is stored and the socket is created with its handlers
HostMediaResolved ==
    /\ hPhase = "media"
    /\ IF ~active
       THEN /\ hPhase' = "aborted"
            /\ hStreams' = Append(hStreams, Stream(FALSE, 1))
            /\ UNCHANGED <<streamRef, hSocket>>
       ELSE /\ hPhase' = "live"
            /\ hStreams' = Append(hStreams, Stream(TRUE, 0))
            /\ streamRef' = "live"
            /\ hSocket' = "connecting"
    /\ UNCHANGED <<active, peersRef, hPcs, hTasks, hSent, hViewerCount,
                   hComments, viewerVars, histVars, route, formVars,
                   obsVars, hStale, hRuns, wireVars>>

\* getUserMedia rejects: setup() ends rejected
HostMediaRejected ==
    /\ hPhase = "media"
    /\ hPhase' = "media-rejected"
    /\ UNCHANGED <<active, streamRef, hSocket, peersRef, hPcs, hTasks, hSent,
                   hViewerCount, hComments, viewerVars, histVars, route, formVars,
                   obsVars, lifeVars, wireVars>>

\* the socket connects: it sends what it held back, and socket.on('connect')
\* emits join_room
HostOnConnect ==
    /\ hSocket = "connecting"
    /\ hSocket' = "connected"
    /\ hSent' = (hSent (+) hBuffered) (+) One(JoinRoom(RoomId, SellerId, "seller"))
    /\ hBuffered' = EmptyBag
    /\ hOut' = Relayed(hOut, JoinRoom(RoomId, SellerId, "seller"))
    /\ UNCHANGED <<hPhase, active, streamRef, peersRef, hPcs, hTasks,
                   hViewerCount, hComments, viewerVars, histVars, route,
                   obsVars, lifeVars, vOut, hMessage, vMessage, vBuffered>>

\* the effect's cleanup
HostCleanup ==
    /\ active
    /\ active' = FALSE
    /\ hSocket' = IF hSocket \in {"connecting", "connected"} THEN "closed"
                  ELSE hSocket
    /\ streamRef' = IF streamRef = "live" THEN "stopped" ELSE streamRef
    /\ hStreams' = StopCurrent(hStreams)
    /\ hPcs' = [i \in DOMAIN hPcs |->
                  IF \E v \in HostPeerIds : peersRef[v] = i
                  THEN ClosePc(hPcs[i]) ELSE hPcs[i]]
    /\ peersRef' = [v \in HostPeerIds |-> 0]
    /\ UNCHANGED <<hPhase, hTasks, hSent, hViewerCount, hComments, viewerVars,
                   histVars, route, formVars,
                   obsVars, hStale, hRuns, wireVars>>

\* a dependency of the effect changes (sellerId or roomId; profileQuery.data
\* in App.tsx): React runs the cleanup of the previous run, then the effect
\* again.  A setup() of the previous run that is suspended stays so, with
\* its own `active` now false.
HostRerun ==
    /\ active
    /\ hRuns < MaxRuns
    /\ hRuns' = hRuns + 1
    /\ hSocket' = IF hSocket \in {"connecting", "connected"} THEN "closed"
                  ELSE hSocket
    /\ streamRef' = IF streamRef = "live" THEN "stopped" ELSE streamRef
    /\ hStreams' = StopCurrent(hStreams)
    /\ hPcs' = [i \in DOMAIN hPcs |->
                  IF \E v \in HostPeerIds : peersRef[v] = i
                  THEN ClosePc(hPcs[i]) ELSE hPcs[i]]
    /\ peersRef' = [v \in HostPeerIds |-> 0]
    /\ hStale' = IF hPhase \in {"joining", "media"} THEN hStale (+) One(hPhase)
                 ELSE hStale
    /\ hPhase' = "joining"
    /\ active' = TRUE
    /\ hPeerLog' = [v \in HostPeerIds |-> NoContact]
    /\ UNCHANGED <<hTasks, hSent, hViewerCount, hComments, viewerVars,
                   histVars, route, formVars, vHeard, hPush, vPush, wireVars>>

\* the room-join request of a superseded run resolves: its setup calls
\* getUserMedia
HostStaleJoinResolved ==
    /\ BagIn("joining", hStale)
    /\ hStale' = (hStale (-) One("joining")) (+) One("media")
    /\ UNCHANGED <<route, formVars, hostVars, viewerVars, histVars, obsVars, hStreams,
                   hRuns, wireVars>>

HostStaleJoinRejected ==
    /\ BagIn("joining", hStale)
    /\ hStale' = hStale (-) One("joining")
    /\ UNCHANGED <<route, formVars, hostVars, viewerVars, histVars, obsVars, hStreams,
                   hRuns, wireVars>>

\* getUserMedia of a superseded run resolves: if (!active) its tracks are
\* stopped and setup returns
HostStaleMediaResolved ==
    /\ BagIn("media", hStale)
    /\ hStale' = hStale (-) One("media")
    /\ hStreams' = Append(hStreams, Stream(FALSE, 1))
    /\ UNCHANGED <<route, formVars, hostVars, viewerVars, histVars, obsVars, hRuns,
                   wireVars>>

HostStaleMediaRejected ==
    /\ BagIn("media", hStale)
    /\ hStale' = hStale (-) One("media")
    /\ UNCHANGED <<route, formVars, hostVars, viewerVars, histVars, obsVars, hStreams,
                   hRuns, wireVars>>

\* socket.on('viewer_count_updated')
HostOnViewerCountUpdated(m) ==
    /\ hSocket = "connected"
    /\ Delivered("host", m)
    /\ hViewerCount' = IF InRoom(m) THEN m.viewerCount ELSE hViewerCount
    /\ hPush' = IF InRoom(m) THEN m.viewerCount ELSE hPush
    /\ UNCHANGED <<hPhase, active, streamRef, hSocket, peersRef, hPcs, hTasks,
                   hSent, hComments, viewerVars, hJoins, hAllComments,
                   vAllComments, shared, route, formVars,
                   hPeerLog, vHeard, vPush, lifeVars>>

\* the join check without its role half
HostIgnoresJoinRoomOnly(m) == ~InRoom(m)

\* if (payload.roomId !== roomId || payload.role !== 'viewer') return
HostIgnoresJoin(m) == ~InRoom(m) \/ m.role # "viewer"

\* socket.on('participant_joined'), up to its first await (pc.createOffer())
HostOnParticipantJoined(m) ==
    /\ hSocket = "connected"
    /\ Delivered("host", m)
    /\ IF HostIgnoresJoin(m)
       THEN UNCHANGED <<peersRef, hPcs, hTasks, hJoins, hPeerLog>>
       ELSE LET e == EnsurePeer(m.userId) IN
            /\ peersRef' = e.reg
            /\ hPcs' = e.pcs
            /\ hTasks' = Append(hTasks, Task("createOffer", e.pc, m.userId))
            /\ hJoins' = [hJoins EXCEPT ![m.userId] = @ + 1]
            /\ hPeerLog' = [hPeerLog EXCEPT ![m.userId] = Joined(@)]
    /\ UNCHANGED <<hPhase, active, streamRef, hSocket, hSent, hViewerCount,
                   hComments, viewerVars, hAllComments, vAllComments, shared, route, formVars,
                   vHeard, hPush, vPush, lifeVars>>

\* createOffer() settles: it rejects on a closed connection, else the handler
\* goes on to await pc.setLocalDescription(offer)
HostCreateOfferSettled(t) ==
    /\ Ready(hTasks, t)
    /\ t.op = "createOffer"
    /\ hTasks' = IF hPcs[t.pc].sig = "closed"
                 THEN Take(hTasks, t)
                 ELSE Append(Take(hTasks, t), Task("setLocalOffer", t.pc, t.user))
    /\ UNCHANGED <<hPhase, active, streamRef, hSocket, peersRef, hPcs, hSent,
                   hViewerCount, hComments, viewerVars, histVars, route, formVars,
                   obsVars, lifeVars, wireVars>>

\* setLocalDescription(offer) settles: when it resolves the handler emits the
\* offer addressed to the viewer and ends
HostSetLocalSettled(t) ==
    /\ Ready(hTasks, t)
    /\ t.op = "setLocalOffer"
    /\ hTasks' = Take(hTasks, t)
    /\ IF CanSetLocalOffer(hPcs[t.pc])
       THEN /\ hPcs' = [hPcs EXCEPT ![t.pc] = SetLocalOffer(@)]
            /\ hSent' = HostEmit(StreamSignal(RoomId, SellerId, t.user, "offer", TRUE))
            /\ hOut' = HostPost(StreamSignal(RoomId, SellerId, t.user, "offer", TRUE))
       ELSE UNCHANGED <<hPcs, hSent, hOut>>
    /\ UNCHANGED <<hPhase, active, streamRef, hSocket, peersRef, hViewerCount,
                   hComments, viewerVars, histVars, route, formVars,
                   obsVars, lifeVars, vOut>>

\* the entry deleted without closing its connection
RemovePeerUnclosed(userId) ==
    [pcs |-> hPcs, reg |-> [peersRef EXCEPT ![userId] = 0]]

\* participant_left tearing down every session, as the cleanup does
RemovePeerEveryone(userId) ==
    [pcs |-> [i \in DOMAIN hPcs |->
                IF \E v \in HostPeerIds : peersRef[v] = i
                THEN ClosePc(hPcs[i]) ELSE hPcs[i]],
     reg |-> [v \in HostPeerIds |-> 0]]

\* peersRef.current.get(userId)?.close(); peersRef.current.delete(userId)
RemovePeer(userId) ==
    [pcs |-> IF peersRef[userId] # 0
             THEN [hPcs EXCEPT ![peersRef[userId]] = ClosePc(@)]
             ELSE hPcs,
     reg |-> [peersRef EXCEPT ![userId] = 0]]

\* socket.on('participant_left')
HostOnParticipantLeft(m) ==
    /\ hSocket = "connected"
    /\ Delivered("host", m)
    /\ IF ~InRoom(m)
       THEN UNCHANGED <<peersRef, hPcs, hPeerLog>>
       ELSE /\ hPcs' = RemovePeer(m.userId).pcs
            /\ peersRef' = RemovePeer(m.userId).reg
            /\ hPeerLog' = [hPeerLog EXCEPT ![m.userId] = Left(@)]
    /\ UNCHANGED <<hPhase, active, streamRef, hSocket, hTasks, hSent,
                   hViewerCount, hComments, viewerVars, hJoins, hAllComments,
                   vAllComments, shared, route, formVars,
                   vHeard, hPush, vPush, lifeVars>>

\* the log with prev.slice(-40): one entry too many is kept
AppendCommentKeep40(prev, entry) ==
    Append(SubSeq(prev, IF Len(prev) > KeepPrev + 1 THEN Len(prev) - KeepPrev ELSE 1,
                  Len(prev)),
           entry)

\* prev => [...prev.slice(-39), entry]
AppendComment(prev, entry) ==
    Append(SubSeq(prev, IF Len(prev) > KeepPrev THEN Len(prev) - KeepPrev + 1 ELSE 1,
                  Len(prev)),
           entry)

CommentEntry(m) == [userId |-> m.userId, message |-> m.message]

\* socket.on('comment_created')
HostOnCommentCreated(m) ==
    /\ hSocket = "connected"
    /\ Delivered("host", m)
    /\ IF InRoom(m)
       THEN /\ hComments' = AppendComment(hComments, CommentEntry(m))
            /\ hAllComments' = Append(hAllComments, CommentEntry(m))
       ELSE UNCHANGED <<hComments, hAllComments>>
    /\ UNCHANGED <<hPhase, active, streamRef, hSocket, peersRef, hPcs, hTasks,
                   hSent, hViewerCount, viewerVars, hJoins, vAllComments, shared, route, formVars,
                   obsVars, lifeVars>>

\* if (payload.roomId !== roomId || payload.toUserId !== sellerId) return
HostDiscards(m) == ~InRoom(m) \/ m.toUserId # SellerId

\* the handler applying whatever description it is sent
HostSignalOpAnySdp(m) ==
    IF m.typ = "offer" /\ m.body THEN "setRemoteOffer"
    ELSE IF m.typ = "answer" /\ m.body THEN "setRemoteAnswer"
    ELSE IF m.typ = "ice-candidate" /\ m.body THEN "addIceCandidate"
    ELSE "none"

\* the operation the handler awaits for an accepted signal: an answer with
\* its sdp is applied, a candidate is added, anything else is dropped
HostSignalOp(m) ==
    IF m.typ = "answer" /\ m.body THEN "setRemoteAnswer"
    ELSE IF m.typ = "ice-candidate" /\ m.body THEN "addIceCandidate"
    ELSE "none"

\* socket.on('stream_signal'), up to its await
HostOnStreamSignal(m) ==
    /\ hSocket = "connected"
    /\ Delivered("host", m)
    /\ IF HostDiscards(m)
       THEN UNCHANGED <<peersRef, hPcs, hTasks, hPeerLog>>
       ELSE LET e == EnsurePeer(m.fromUserId) IN
            /\ peersRef' = e.reg
            /\ hPcs' = e.pcs
            /\ hPeerLog' = [hPeerLog EXCEPT ![m.fromUserId] = Heard(@)]
            /\ hTasks' =
                 IF HostSignalOp(m) = "none" THEN hTasks
                 ELSE Append(hTasks, Task(HostSignalOp(m), e.pc, m.fromUserId))
    /\ UNCHANGED <<hPhase, active, streamRef, hSocket, hSent, hViewerCount,
                   hComments, viewerVars, hJoins, hAllComments, vAllComments,
                   shared, route, formVars,
                   vHeard, hPush, vPush, lifeVars>>

\* setRemoteDescription(answer) settles and the handler ends
HostSetRemoteSettled(t) ==
    /\ Ready(hTasks, t)
    /\ t.op = "setRemoteAnswer"
    /\ hTasks' = Take(hTasks, t)
    /\ hPcs' = IF CanSetRemoteAnswer(hPcs[t.pc])
               THEN [hPcs EXCEPT ![t.pc] = SetRemoteAnswer(@)] ELSE hPcs
    /\ UNCHANGED <<hPhase, active, streamRef, hSocket, peersRef, hSent,
                   hViewerCount, hComments, viewerVars, histVars, route, formVars,
                   obsVars, lifeVars, wireVars>>

\* addIceCandidate settles and the handler ends
HostAddIceSettled(t) ==
    /\ Ready(hTasks, t)
    /\ t.op = "addIceCandidate"
    /\ hTasks' = Take(hTasks, t)
    /\ hPcs' = IF CanAddIce(hPcs[t.pc])
               THEN [hPcs EXCEPT ![t.pc] = AddIce(@)] ELSE hPcs
    /\ UNCHANGED <<hPhase, active, streamRef, hSocket, peersRef, hSent,
                   hViewerCount, hComments, viewerVars, histVars, route, formVars,
                   obsVars, lifeVars, wireVars>>

\* the candidate message without its recipient
HostCandidateBroadcast(viewerId) ==
    StreamSignal(RoomId, SellerId, NoUser, "ice-candidate", TRUE)

\* the candidate message of the connection made for viewerId: toUserId is the
\* argument ensurePeer was called with
HostCandidate(viewerId) ==
    StreamSignal(RoomId, SellerId, viewerId, "ice-candidate", TRUE)

\* pc.onicecandidate with a candidate: an open connection gathers once it has
\* a local description
HostOnIceCandidate(i) ==
    /\ hPcs[i].sig # "closed"
    /\ hPcs[i].hasLocal
    /\ CopiesIn(HostCandidate(hPcs[i].peer), hSent) < MaxLocalCands
    /\ hSent' = HostEmit(HostCandidate(hPcs[i].peer))
    /\ hOut' = HostPost(HostCandidate(hPcs[i].peer))
    /\ UNCHANGED <<hPhase, active, streamRef, hSocket, peersRef, hPcs, hTasks,
                   hViewerCount, hComments, viewerVars, histVars, route, formVars,
                   obsVars, lifeVars, vOut>>

\* ============================================================ JoinRoomPage

\* socket.emit on the viewer's socket
ViewerEmit(m) == IF vSocket = "connected" THEN vSent (+) One(m) ELSE vSent
ViewerPost(m) == IF vSocket = "connected" THEN Relayed(vOut, m) ELSE vOut

\* the page mounts: the first effect calls joinMutation.mutate(); the second
\* one, run in the same commit with joinMutation.isError still false, creates
\* the socket and registers the handlers
ViewerMount ==
    /\ ViewerRoute
    /\ vJoin = "idle"
    /\ vJoin' = "pending"
    /\ vSocket' = "connecting"
    /\ UNCHANGED <<pcRef, vPcs, vTasks, vSent, vViewerCount, vComments,
                   featuredProducts, hostVars, histVars, route, formVars,
                   obsVars, lifeVars, wireVars>>

\* onSuccess: setViewerCount(data.room.viewerCount)
ViewerJoinSuccess(n) ==
    /\ vJoin = "pending"
    /\ vJoin' = "success"
    /\ vViewerCount' = n
    /\ UNCHANGED <<vSocket, pcRef, vPcs, vTasks, vSent, vComments,
                   featuredProducts, hostVars, histVars, route, formVars,
                   obsVars, lifeVars, wireVars>>

\* the room-join request fails: joinMutation.isError becomes true
ViewerJoinError ==
    /\ vJoin = "pending"
    /\ vJoin' = "error"
    /\ UNCHANGED <<vSocket, pcRef, vPcs, vTasks, vSent, vViewerCount, vComments,
                   featuredProducts, hostVars, histVars, route, formVars,
                   obsVars, lifeVars, wireVars>>

\* the socket connects: it sends what it held back, and socket.on('connect')
\* emits join_room
ViewerOnConnect ==
    /\ vSocket = "connecting"
    /\ vSocket' = "connected"
    /\ vSent' = (vSent (+) vBuffered) (+) One(JoinRoom(RoomId, ViewerId, "viewer"))
    /\ vBuffered' = EmptyBag
    /\ vOut' = Relayed(vOut, JoinRoom(RoomId, ViewerId, "viewer"))
    /\ UNCHANGED <<vJoin, pcRef, vPcs, vTasks, vViewerCount, vComments,
                   featuredProducts, hostVars, histVars, route,
                   obsVars, lifeVars, hOut, hMessage, vMessage, hBuffered>>

\* the socket effect's cleanup when the page unmounts
ViewerCleanup ==
    /\ vSocket \in {"connecting", "connected"}
    /\ vSocket' = "closed"
    /\ vPcs' = IF pcRef # 0 THEN [vPcs EXCEPT ![pcRef] = ClosePc(@)] ELSE vPcs
    /\ pcRef' = 0
    /\ UNCHANGED <<vJoin, vTasks, vSent, vViewerCount, vComments,
                   featuredProducts, hostVars, histVars, route, formVars,
                   obsVars, lifeVars, wireVars>>

\* the re-run that leaves the socket of the previous run as it is
ViewerRerunOnErrorNoCleanup ==
    /\ vJoin = "error"
    /\ vJoin' = "error-seen"
    /\ UNCHANGED <<vSocket, pcRef, vPcs, vTasks, vSent, vViewerCount, vComments,
                   featuredProducts, hostVars, histVars, route, formVars,
                   obsVars, lifeVars, wireVars>>

\* joinMutation.isError has become true and the page has rendered again: the
\* socket effect's dependency changed, so React runs the cleanup of its
\* previous run and then the effect, which returns at `if
\* (joinMutation.isError)`
ViewerRerunOnError ==
    /\ vJoin = "error"
    /\ vJoin' = "error-seen"
    /\ vSocket' = IF vSocket \in {"connecting", "connected"} THEN "closed"
                  ELSE vSocket
    /\ vPcs' = IF pcRef # 0 THEN [vPcs EXCEPT ![pcRef] = ClosePc(@)] ELSE vPcs
    /\ pcRef' = 0
    /\ UNCHANGED <<vTasks, vSent, vViewerCount, vComments,
                   featuredProducts, hostVars, histVars, route, formVars,
                   obsVars, lifeVars, wireVars>>

\* socket.on('viewer_count_updated')
ViewerOnViewerCountUpdated(m) ==
    /\ vSocket = "connected"
    /\ Delivered("viewer", m)
    /\ vViewerCount' = IF InRoom(m) THEN m.viewerCount ELSE vViewerCount
    /\ vPush' = IF InRoom(m) THEN m.viewerCount ELSE vPush
    /\ UNCHANGED <<vJoin, vSocket, pcRef, vPcs, vTasks, vSent, vComments,
                   featuredProducts, hostVars, hJoins, hAllComments,
                   vAllComments, shared, route, formVars,
                   hPeerLog, vHeard, hPush, lifeVars>>

\* socket.on('comment_created')
ViewerOnCommentCreated(m) ==
    /\ vSocket = "connected"
    /\ Delivered("viewer", m)
    /\ IF InRoom(m)
       THEN /\ vComments' = AppendComment(vComments, CommentEntry(m))
            /\ vAllComments' = Append(vAllComments, CommentEntry(m))
       ELSE UNCHANGED <<vComments, vAllComments>>
    /\ UNCHANGED <<vJoin, vSocket, pcRef, vPcs, vTasks, vSent, vViewerCount,
                   featuredProducts, hostVars, hJoins, hAllComments, shared, route, formVars,
                   obsVars, lifeVars>>

Product(m) == [id |-> m.productId, rev |-> m.productRev]

\* prev.filter((p) => p.id !== id)
WithoutId(prev, id) == SelectSeq(prev, LAMBDA p : p.id # id)

\* the list deduplicated by product object instead of by product id
FeatureProductByValue(prev, product) ==
    LET all == <<product>> \o SelectSeq(prev, LAMBDA p : p # product)
    IN  SubSeq(all, 1, IF Len(all) < ProductCap THEN Len(all) ELSE ProductCap)

\* prev => [product, ...prev.filter((p) => p.id !== product.id)].slice(0, 10)
FeatureProduct(prev, product) ==
    LET all == <<product>> \o WithoutId(prev, product.id)
    IN  SubSeq(all, 1, IF Len(all) < ProductCap THEN Len(all) ELSE ProductCap)

\* socket.on('product_shared')
ViewerOnProductShared(m) ==
    /\ vSocket = "connected"
    /\ Delivered("viewer", m)
    /\ IF InRoom(m)
       THEN /\ featuredProducts' = FeatureProduct(featuredProducts, Product(m))
            /\ shared' = Append(shared, Product(m))
       ELSE UNCHANGED <<featuredProducts, shared>>
    /\ UNCHANGED <<vJoin, vSocket, pcRef, vPcs, vTasks, vSent, vViewerCount,
                   vComments, hostVars, hJoins, hAllComments, vAllComments, route, formVars,
                   obsVars, lifeVars>>

\* the viewer's check without its toUserId half
ViewerDiscardsRoomOnly(m) == ~InRoom(m)

\* the recipient check inverted: a signal addressed to the viewer is dropped
ViewerDiscardsOwn(m) ==
    ~InRoom(m) \/ (Truthy(m.toUserId) /\ m.toUserId = ViewerId)

\* the recipient check of the viewer's stream_signal handler
ViewerDiscards(m) ==
    ~InRoom(m) \/ (Truthy(m.toUserId) /\ m.toUserId # ViewerId)

\* if (!pcRef.current) { ... pcRef.current = pc }: the connections and the
\* reference after it
ViewerEnsurePc(m) ==
    IF pcRef # 0
    THEN [pcs |-> vPcs, pc |-> pcRef]
    ELSE [pcs |-> Append(vPcs, NewPeerConnection(m.fromUserId, FALSE)),
          pc  |-> Len(vPcs) + 1]

\* the operation the handler awaits first for an accepted signal: an offer
\* with its sdp is applied, a candidate is added, anything else is dropped
ViewerSignalOp(m) ==
    IF m.typ = "offer" /\ m.body THEN "setRemoteOffer"
    ELSE IF m.typ = "ice-candidate" /\ m.body THEN "addIceCandidate"
    ELSE "none"

\* socket.on('stream_signal'), up to its first await
ViewerOnStreamSignal(m) ==
    /\ vSocket = "connected"
    /\ Delivered("viewer", m)
    /\ IF ViewerDiscards(m)
       THEN UNCHANGED <<pcRef, vPcs, vTasks, vHeard>>
       ELSE LET e == ViewerEnsurePc(m) IN
            /\ pcRef' = e.pc
            /\ vPcs' = e.pcs
            /\ vHeard' = vHeard \cup {m.fromUserId}
            /\ vTasks' =
                 IF ViewerSignalOp(m) = "none" THEN vTasks
                 ELSE Append(vTasks, Task(ViewerSignalOp(m), e.pc, m.fromUserId))
    /\ UNCHANGED <<vJoin, vSocket, vSent, vViewerCount, vComments,
                   featuredProducts, hostVars, hJoins, hAllComments,
                   vAllComments, shared, route, formVars,
                   hPeerLog, hPush, vPush, lifeVars>>

\* setRemoteDescription(offer) settles; the handler goes on to createAnswer()
ViewerSetRemoteSettled(t) ==
    /\ Ready(vTasks, t)
    /\ t.op = "setRemoteOffer"
    /\ IF CanSetRemoteOffer(vPcs[t.pc])
       THEN /\ vPcs' = [vPcs EXCEPT ![t.pc] = SetRemoteOffer(@)]
            /\ vTasks' = Append(Take(vTasks, t), Task("createAnswer", t.pc, t.user))
       ELSE /\ vPcs' = vPcs
            /\ vTasks' = Take(vTasks, t)
    /\ UNCHANGED <<vJoin, vSocket, pcRef, vSent, vViewerCount, vComments,
                   featuredProducts, hostVars, histVars, route, formVars,
                   obsVars, lifeVars, wireVars>>

\* createAnswer() settles; the handler goes on to setLocalDescription(answer)
ViewerCreateAnswerSettled(t) ==
    /\ Ready(vTasks, t)
    /\ t.op = "createAnswer"
    /\ vTasks' = IF CanAnswer(vPcs[t.pc])
                 THEN Append(Take(vTasks, t), Task("setLocalAnswer", t.pc, t.user))
                 ELSE Take(vTasks, t)
    /\ UNCHANGED <<vJoin, vSocket, pcRef, vPcs, vSent, vViewerCount, vComments,
                   featuredProducts, hostVars, histVars, route, formVars,
                   obsVars, lifeVars, wireVars>>

\* setLocalDescription(answer) settles: when it resolves the handler emits
\* the answer addressed to the offer's sender
ViewerSetLocalSettled(t) ==
    /\ Ready(vTasks, t)
    /\ t.op = "setLocalAnswer"
    /\ vTasks' = Take(vTasks, t)
    /\ IF CanAnswer(vPcs[t.pc])
       THEN /\ vPcs' = [vPcs EXCEPT ![t.pc] = SetLocalAnswer(@)]
            /\ vSent' = ViewerEmit(StreamSignal(RoomId, ViewerId, t.user, "answer", TRUE))
            /\ vOut' = ViewerPost(StreamSignal(RoomId, ViewerId, t.user, "answer", TRUE))
       ELSE UNCHANGED <<vPcs, vSent, vOut>>
    /\ UNCHANGED <<vJoin, vSocket, pcRef, vViewerCount, vComments,
                   featuredProducts, hostVars, histVars, route, formVars,
                   obsVars, lifeVars, hOut>>

\* addIceCandidate settles and the handler ends
ViewerAddIceSettled(t) ==
    /\ Ready(vTasks, t)
    /\ t.op = "addIceCandidate"
    /\ vTasks' = Take(vTasks, t)
    /\ vPcs' = IF CanAddIce(vPcs[t.pc])
               THEN [vPcs EXCEPT ![t.pc] = AddIce(@)] ELSE vPcs
    /\ UNCHANGED <<vJoin, vSocket, pcRef, vSent, vViewerCount, vComments,
                   featuredProducts, hostVars, histVars, route, formVars,
                   obsVars, lifeVars, wireVars>>

\* the candidate message of the viewer's connection: toUserId is fromUserId
\* of the signal the connection was created for
ViewerCandidate(from) ==
    StreamSignal(RoomId, ViewerId, from, "ice-candidate", TRUE)

\* pc.onicecandidate with a candidate
ViewerOnIceCandidate(i) ==
    /\ vPcs[i].sig # "closed"
    /\ vPcs[i].hasLocal
    /\ CopiesIn(ViewerCandidate(vPcs[i].peer), vSent) < MaxLocalCands
    /\ vSent' = ViewerEmit(ViewerCandidate(vPcs[i].peer))
    /\ vOut' = ViewerPost(ViewerCandidate(vPcs[i].peer))
    /\ UNCHANGED <<vJoin, vSocket, pcRef, vPcs, vTasks, vViewerCount, vComments,
                   featuredProducts, hostVars, histVars, route, formVars,
                   obsVars, lifeVars, hOut>>

\* an event the viewer's socket has no listener for (participant_joined,
\* participant_left): it reaches the socket and nothing runs
ViewerUnhandled(m) ==
    /\ vSocket = "connected"
    /\ Delivered("viewer", m)
    /\ UNCHANGED <<hostVars, viewerVars, hJoins, hAllComments, vAllComments,
                   shared, route, formVars, obsVars, lifeVars>>

\* ========================================================= the comment form
\* the characters a comment is typed from: a blank and a letter
Chars == {" ", "a"}
\* the texts the input can hold
Texts == UNION {[1 .. n -> Chars] : n \in 0 .. MaxText}

\* a text sent as it was typed
TrimNothing(t) == t

RECURSIVE TrimStart(_)
TrimStart(t) ==
    IF t = <<>> THEN <<>>
    ELSE IF Head(t) = " " THEN TrimStart(Tail(t))
    ELSE t
RECURSIVE TrimEnd(_)
TrimEnd(t) ==
    IF t = <<>> THEN <<>>
    ELSE IF t[Len(t)] = " " THEN TrimEnd(SubSeq(t, 1, Len(t) - 1))
    ELSE t
\* message.trim()
Trim(t) == TrimEnd(TrimStart(t))

\* the text as the number that stands for it on the wire: base 3, a blank
\* is 1 and a letter 2, so that different texts get different numbers
RECURSIVE Code(_)
Code(t) ==
    IF t = <<>> THEN 0
    ELSE (IF Head(t) = " " THEN 1 ELSE 2) + 3 * Code(Tail(t))

SendComment(r, u, msg) ==
    [Blank EXCEPT !.ev = "send_comment", !.roomId = r, !.userId = u,
                  !.message = msg]

\* the send_comment messages among those of a bag
CommentsIn(b) ==
    LET S == {m \in BagToSet(b) : m.ev = "send_comment"}
    IN  [m \in S |-> b[m]]

\* the page is on screen: rendered, and its effect not cleaned up for good
HostMounted == HostRoute /\ (hPhase = "init" \/ active)
ViewerMounted ==
    ViewerRoute /\ vJoin # "idle" /\ (vSocket # "closed" \/ vJoin = "error-seen")

\* onChange of the comment input: setMessage(e.target.value)
HostType(text) ==
    /\ HostMounted
    /\ text # hMessage
    /\ hMessage' = text
    /\ UNCHANGED <<route, hostVars, viewerVars, histVars, obsVars, lifeVars,
                   wireVars, vMessage, hBuffered, vBuffered>>

ViewerType(text) ==
    /\ ViewerMounted
    /\ text # vMessage
    /\ vMessage' = text
    /\ UNCHANGED <<route, hostVars, viewerVars, histVars, obsVars, lifeVars,
                   wireVars, hMessage, hBuffered, vBuffered>>

\* HostRoomPage sendComment: profileQuery.data is set once the effect has
\* run, socketRef.current once setup has created the socket; a socket that
\* is not connected holds the message back
HostSendComment ==
    /\ HostMounted
    /\ BagCardinality(CommentsIn(hSent (+) hBuffered)) < MaxSends
    /\ IF Trim(hMessage) = <<>> \/ hPhase = "init" \/ hSocket = "none"
       THEN UNCHANGED <<hSent, hBuffered, hMessage>>
       ELSE LET m == SendComment(RoomId, SellerId, Code(Trim(hMessage))) IN
            /\ hSent' = IF hSocket = "connected" THEN hSent (+) One(m) ELSE hSent
            /\ hBuffered' = IF hSocket = "connected" THEN hBuffered
                            ELSE hBuffered (+) One(m)
            /\ hMessage' = <<>>
    /\ UNCHANGED <<hPhase, active, streamRef, hSocket, peersRef, hPcs, hTasks,
                   hViewerCount, hComments, viewerVars, histVars, route,
                   obsVars, lifeVars, wireVars, vMessage, vBuffered>>

\* JoinRoomPage sendComment
ViewerSendComment ==
    /\ ViewerMounted
    /\ BagCardinality(CommentsIn(vSent (+) vBuffered)) < MaxSends
    /\ IF Trim(vMessage) = <<>> \/ vSocket = "none"
       THEN UNCHANGED <<vSent, vBuffered, vMessage>>
       ELSE LET m == SendComment(RoomId, ViewerId, Code(Trim(vMessage))) IN
            /\ vSent' = IF vSocket = "connected" THEN vSent (+) One(m) ELSE vSent
            /\ vBuffered' = IF vSocket = "connected" THEN vBuffered
                            ELSE vBuffered (+) One(m)
            /\ vMessage' = <<>>
    /\ UNCHANGED <<vJoin, vSocket, pcRef, vPcs, vTasks, vViewerCount, vComments,
                   featuredProducts, hostVars, histVars, route,
                   obsVars, lifeVars, wireVars, hMessage, hBuffered>>

\* ================================================================ the server
\* what the signaling server may deliver to the host's socket: every event of
\* the host's room, and of another room one event of each kind that only
\* the room check keeps out
HostJoinedMsgs ==
    {ParticipantJoined(RoomId, u, role) : u \in HostPeerIds, role \in Roles}
    \cup {ParticipantJoined(OtherRoom, ViewerId, "viewer")}
HostLeftMsgs ==
    {ParticipantLeft(RoomId, u) : u \in HostPeerIds}
    \cup {ParticipantLeft(OtherRoom, ViewerId)}
HostSignalMsgs ==
    {StreamSignal(RoomId, f[1], f[2], ty, b) :
        f \in HostPeerIds \X {SellerId, ViewerId, NoUser},
        ty \in SignalTypes, b \in BOOLEAN}
    \cup {StreamSignal(OtherRoom, ViewerId, SellerId, ty, TRUE) : ty \in SignalTypes}
\* ... and to the viewer's
ViewerSignalMsgs ==
    {StreamSignal(RoomId, f[1], f[2], ty, b) :
        f \in ViewerPeerIds \X {ViewerId, OtherViewerId, NoUser},
        ty \in SignalTypes, b \in BOOLEAN}
    \cup {StreamSignal(OtherRoom, SellerId, ViewerId, ty, TRUE) : ty \in SignalTypes}
CountMsgs ==
    {ViewerCountUpdated(RoomId, n) : n \in ViewerCounts}
    \cup {ViewerCountUpdated(OtherRoom, 2)}
CommentMsgs ==
    {CommentCreated(RoomId, ViewerId, msg) : msg \in {1}}
    \cup {CommentCreated(OtherRoom, ViewerId, 1)}
ProductMsgs ==
    {ProductShared(RoomId, id, 0) : id \in {1}}
    \cup {ProductShared(OtherRoom, 1, 0)}

HostTasks == {hTasks[k] : k \in DOMAIN hTasks}
ViewerTasks == {vTasks[k] : k \in DOMAIN vTasks}

HostLifecycle ==
    \/ HostEffect
    \/ HostJoinResolved
    \/ HostJoinRejected
    \/ HostMediaResolved
    \/ HostMediaRejected
    \/ HostOnConnect
    \/ HostCleanup

HostContinuations ==
    \/ \E t \in HostTasks : HostCreateOfferSettled(t)
    \/ \E t \in HostTasks : HostSetLocalSettled(t)
    \/ \E t \in HostTasks : HostSetRemoteSettled(t)
    \/ \E t \in HostTasks : HostAddIceSettled(t)

HostInbound ==
    /\ nIn < MaxIn
    /\ \/ \E m \in CountMsgs : HostOnViewerCountUpdated(m)
       \/ \E m \in HostJoinedMsgs : HostOnParticipantJoined(m)
       \/ \E m \in HostLeftMsgs : HostOnParticipantLeft(m)
       \/ \E m \in CommentMsgs : HostOnCommentCreated(m)
       \/ \E m \in HostSignalMsgs : HostOnStreamSignal(m)

ViewerLifecycle ==
    \/ ViewerMount
    \/ \E n \in ViewerCounts : ViewerJoinSuccess(n)
    \/ ViewerJoinError
    \/ ViewerRerunOnError
    \/ ViewerOnConnect
    \/ ViewerCleanup

ViewerContinuations ==
    \/ \E t \in ViewerTasks : ViewerSetRemoteSettled(t)
    \/ \E t \in ViewerTasks : ViewerCreateAnswerSettled(t)
    \/ \E t \in ViewerTasks : ViewerSetLocalSettled(t)
    \/ \E t \in ViewerTasks : ViewerAddIceSettled(t)

ViewerInbound ==
    /\ nIn < MaxIn
    /\ \/ \E m \in CountMsgs : ViewerOnViewerCountUpdated(m)
       \/ \E m \in CommentMsgs : ViewerOnCommentCreated(m)
       \/ \E m \in ProductMsgs : ViewerOnProductShared(m)
       \/ \E m \in ViewerSignalMsgs : ViewerOnStreamSignal(m)

Next ==
    \/ HostLifecycle
    \/ HostContinuations
    \/ HostInbound
    \/ ViewerLifecycle
    \/ ViewerContinuations
    \/ ViewerInbound

Spec == Init /\ [][Next]_vars

\* ----------------------------------------------------------- SpecSignal
\* Signaling alone, with the candidates each connection gathers: the events
\* of the page's room that bear on PeerSessions.  The room has one host, so
\* the signals that reach a viewer come from the seller.
SignalJoinedMsgs == {m \in HostJoinedMsgs : InRoom(m)}
SignalLeftMsgs == {m \in HostLeftMsgs : InRoom(m)}
SignalToHostMsgs ==
    {m \in HostSignalMsgs : InRoom(m) /\ m.toUserId \in {SellerId, NoUser} /\ m.body}
SignalToViewerMsgs ==
    {m \in ViewerSignalMsgs : InRoom(m) /\ m.fromUserId = SellerId /\ m.body}

SignalInbound ==
    /\ nIn < MaxSignals
    /\ \/ \E m \in SignalJoinedMsgs : HostOnParticipantJoined(m)
       \/ \E m \in SignalLeftMsgs : HostOnParticipantLeft(m)
       \/ \E m \in SignalToHostMsgs : HostOnStreamSignal(m)
       \/ \E m \in SignalToViewerMsgs : ViewerOnStreamSignal(m)
       \/ \E m \in SignalLeftMsgs : ViewerUnhandled(m)

SignalNext ==
    \/ HostLifecycle
    \/ HostContinuations
    \/ \E i \in DOMAIN hPcs : HostOnIceCandidate(i)
    \/ ViewerLifecycle
    \/ ViewerContinuations
    \/ \E i \in DOMAIN vPcs : ViewerOnIceCandidate(i)
    \/ SignalInbound

SpecSignal == Init /\ [][SignalNext]_vars

\* ------------------------------------------------------------- SpecLife
\* The host page's effect over its runs: setup, teardown and re-run in every
\* order, with viewer 20 joining, answering and leaving meanwhile.
InitLife == route = "host-room" /\ Fresh

LifeInbound ==
    /\ nIn < MaxLifeIn
    /\ \/ HostOnParticipantJoined(ParticipantJoined(RoomId, ViewerId, "viewer"))
       \/ HostOnParticipantLeft(ParticipantLeft(RoomId, ViewerId))
       \/ HostOnStreamSignal(StreamSignal(RoomId, ViewerId, SellerId, "answer", TRUE))
       \/ HostOnStreamSignal(ViewerCandidate(SellerId))

LifeNext ==
    \/ HostLifecycle
    \/ HostRerun
    \/ HostStaleJoinResolved
    \/ HostStaleJoinRejected
    \/ HostStaleMediaResolved
    \/ HostStaleMediaRejected
    \/ HostContinuations
    \/ LifeInbound

SpecLife == InitLife /\ [][LifeNext]_vars

\* ------------------------------------------------------------- SpecPair
\* Both pages open, the seller's first: the server relays what each page
\* emits to the other one, oldest first, and announces a join_room of a
\* viewer to the room as participant_joined.  Requests succeed and nobody
\* leaves.
InitPair == route = "both" /\ Fresh

\* the seller is live and in the room
HostIsLive == hSocket = "connected" /\ hOut = <<>>

\* the server takes the seller's join_room
ServerAdmitsHost ==
    /\ hOut # <<>>
    /\ Head(hOut).ev = "join_room"
    /\ hOut' = Tail(hOut)
    /\ UNCHANGED <<route, formVars, hostVars, viewerVars, histVars, obsVars, lifeVars, vOut>>

\* the server announces the viewer's join_room to the seller
ServerAnnouncesViewer ==
    /\ vOut # <<>>
    /\ Head(vOut).ev = "join_room"
    /\ HostOnParticipantJoined(
          ParticipantJoined(Head(vOut).roomId, Head(vOut).userId, Head(vOut).role))

ServerRelaysToHost ==
    /\ vOut # <<>>
    /\ Head(vOut).ev = "stream_signal"
    /\ HostOnStreamSignal(Head(vOut))

ServerRelaysToViewer ==
    /\ hOut # <<>>
    /\ Head(hOut).ev = "stream_signal"
    /\ ViewerOnStreamSignal(Head(hOut))

PairNext ==
    \/ HostEffect
    \/ HostJoinResolved
    \/ HostMediaResolved
    \/ HostOnConnect
    \/ ServerAdmitsHost
    \/ HostIsLive /\ ViewerMount
    \/ \E n \in ViewerCounts : ViewerJoinSuccess(n)
    \/ ViewerOnConnect
    \/ ServerAnnouncesViewer
    \/ ServerRelaysToHost
    \/ ServerRelaysToViewer
    \/ HostContinuations
    \/ ViewerContinuations
    \/ \E i \in DOMAIN hPcs : HostOnIceCandidate(i)
    \/ \E i \in DOMAIN vPcs : ViewerOnIceCandidate(i)

\* the server relays every message and every pending operation settles
SpecPair == InitPair /\ [][PairNext]_vars /\ WF_vars(PairNext)

\* ---------------------------------------------------------- SpecComment
\* The comment form of each page: the user types and sends at any moment of
\* the page's life, and the server hands a comment it was sent back to the
\* room as comment_created.
Echo(m) == CommentCreated(m.roomId, m.userId, m.message)

CommentNext ==
    \/ HostEffect
    \/ HostJoinResolved
    \/ HostMediaResolved
    \/ HostOnConnect
    \/ HostCleanup
    \/ ViewerMount
    \/ ViewerJoinError
    \/ ViewerRerunOnError
    \/ ViewerOnConnect
    \/ ViewerCleanup
    \/ \E text \in Texts : HostType(text)
    \/ \E text \in Texts : ViewerType(text)
    \/ HostSendComment
    \/ ViewerSendComment
    \/ /\ nIn < MaxSends
       /\ \E m \in BagToSet(CommentsIn(hSent)) : HostOnCommentCreated(Echo(m))
    \/ /\ nIn < MaxSends
       /\ \E m \in BagToSet(CommentsIn(vSent)) : ViewerOnCommentCreated(Echo(m))

SpecComment == Init /\ [][CommentNext]_vars

\* ------------------------------------------------------------- SpecChat
\* The comment log under load: the server relays the room's comments, the
\* n-th one written by alternating users with the text n, and now and then
\* a comment of another room.
RelayedComment(r, n) ==
    CommentCreated(r, IF n % 2 = 0 THEN ViewerId ELSE OtherViewerId, n)

ChatNext ==
    \/ HostEffect
    \/ HostJoinResolved
    \/ HostMediaResolved
    \/ HostOnConnect
    \/ ViewerMount
    \/ ViewerOnConnect
    \/ /\ nIn < MaxComments
       /\ \E r \in Rooms :
            HostOnCommentCreated(RelayedComment(r, Len(hAllComments) + 1))
    \/ /\ nIn < MaxComments
       /\ \E r \in Rooms :
            ViewerOnCommentCreated(RelayedComment(r, Len(vAllComments) + 1))

SpecChat == Init /\ [][ChatNext]_vars

\* --------------------------------------------------------- SpecProducts
\* The featured-product list under load: the host shares the catalog's items
\* one after the other (revision 0) and shares again, edited (revision 1),
\* items it has shared before.
SharedIds == {shared[i].id : i \in DOMAIN shared}

ProductsNext ==
    \/ ViewerMount
    \/ ViewerOnConnect
    \/ /\ nIn < NumProducts + MaxReshares
       /\ Cardinality(SharedIds) < NumProducts
       /\ \E r \in Rooms :
            ViewerOnProductShared(ProductShared(r, Cardinality(SharedIds) + 1, 0))
    \/ /\ nIn < NumProducts + MaxReshares
       /\ Len(shared) - Cardinality(SharedIds) < MaxReshares
       /\ \E id \in SharedIds : ViewerOnProductShared(ProductShared(RoomId, id, 1))

SpecProducts == Init /\ [][ProductsNext]_vars

\* ================================================================= claims

Offer(v) == StreamSignal(RoomId, SellerId, v, "offer", TRUE)
OffersTo(v) == CopiesIn(Offer(v), hSent)
\* the host's PeerSessions for viewer v: its connections that are not closed
OpenFor(v) == {i \in DOMAIN hPcs : hPcs[i].peer = v /\ hPcs[i].sig # "closed"}
PendingFor(v) == {t \in HostTasks : t.user = v}
\* the last event delivered was `ev`, to page `dst`, in this step
Handled(dst, ev) ==
    nIn' = nIn + 1 /\ lastIn'.dst = dst /\ lastIn'.ev = ev
Others(list, id) == SelectSeq(list, LAMBDA p : p.id # id)
\* the last k entries of a sequence (all of it when it is shorter)
LastN(seq, k) ==
    SubSeq(seq, IF Len(seq) > k THEN Len(seq) - k + 1 ELSE 1, Len(seq))

\* C1: while the host has received nothing but participant_joined(viewer)
\* events of its room and its media is live, every viewer id that occurred
\* has been sent at most one offer, and exactly one once its handlers have
\* run to their end; an id that did not occur has been sent none.
C1_OneOfferPerViewerId ==
    (streamRef = "live" /\ hJoins[ViewerId] + hJoins[OtherViewerId] = nIn) =>
        \A v \in HostPeerIds :
            /\ OffersTo(v) <= 1
            /\ hJoins[v] = 0 => OffersTo(v) = 0
            /\ (hJoins[v] > 0 /\ PendingFor(v) = {}) => OffersTo(v) = 1

\* C2: the registry never holds two PeerSessions for a viewer id: the open
\* connections made for v are exactly the one registered under v, ensurePeer
\* never replaces a registered session, and a connection is created only
\* for an id that had none.
C2_Registered ==
    \A v \in HostPeerIds :
        /\ Cardinality(OpenFor(v)) <= 1
        /\ OpenFor(v) = IF peersRef[v] # 0 THEN {peersRef[v]} ELSE {}
C2_EnsureStep ==
    /\ \A v \in HostPeerIds :
         (peersRef[v] # 0 /\ peersRef'[v] # 0) => peersRef'[v] = peersRef[v]
    /\ Len(hPcs') \in {Len(hPcs), Len(hPcs) + 1}
    /\ Len(hPcs') = Len(hPcs) + 1 =>
         \E v \in HostPeerIds :
            /\ peersRef[v] = 0
            /\ peersRef'[v] = Len(hPcs')
            /\ hPcs'[Len(hPcs')].peer = v
C2_AtMostOneSessionPerViewer == []C2_Registered /\ [][C2_EnsureStep]_vars
\* ensurePeer ran for viewer 20 from participant_joined and again from
\* stream_signal, and one connection exists
C2_Witness ==
    /\ hJoins[ViewerId] >= 1
    /\ lastIn.dst = "host" /\ lastIn.ev = "stream_signal"
    /\ lastIn.roomId = RoomId /\ lastIn.toUserId = SellerId
    /\ lastIn.user = ViewerId
    /\ peersRef[ViewerId] = 1
    /\ Len(hPcs) = 1

\* C3: a stream_signal that names another recipient changes nothing on the
\* page it reaches and makes it send nothing, every time it is delivered.
C3_MisaddressedSignalIgnored ==
    [][(/\ nIn' = nIn + 1
        /\ lastIn'.ev = "stream_signal"
        /\ lastIn'.toUserId # NoUser
        /\ lastIn'.toUserId # (IF lastIn'.dst = "host" THEN SellerId ELSE ViewerId))
       => UNCHANGED <<hostVars, viewerVars>>]_vars
\* the viewer, holding a session, was handed a signal of its room addressed
\* to viewer 21
C3_Witness ==
    /\ lastIn.dst = "viewer" /\ lastIn.ev = "stream_signal"
    /\ lastIn.roomId = RoomId /\ lastIn.toUserId = OtherViewerId
    /\ pcRef # 0
    /\ nIn = 2

\* C4: an event of another room leaves the viewer count, the comment log,
\* the product list and every PeerSession as they were and makes the page
\* send nothing, whatever the event and the page.
C4_OtherRoomIgnored ==
    [][(nIn' = nIn + 1 /\ lastIn'.roomId # RoomId)
       => UNCHANGED <<hViewerCount, hComments, peersRef, hPcs, hTasks, hSent,
                      vViewerCount, vComments, featuredProducts, pcRef, vPcs,
                      vTasks, vSent>>]_vars
\* the host, holding a comment and a session, was handed a participant_left
\* of another room for that session's viewer
C4_Witness ==
    /\ lastIn.dst = "host" /\ lastIn.ev = "participant_left"
    /\ lastIn.roomId = OtherRoom /\ lastIn.user = ViewerId
    /\ peersRef[ViewerId] # 0
    /\ Len(hComments) = 1

\* C5: an ice-candidate addressed to the host from a user without a
\* PeerSession leaves the registry and the connections as they were.
C5_CandidateCreatesNoSession ==
    [][\A m \in HostSignalMsgs :
         (/\ m.typ = "ice-candidate"
          /\ ~HostDiscards(m)
          /\ peersRef[m.fromUserId] = 0
          /\ HostOnStreamSignal(m))
         => (peersRef' = peersRef /\ hPcs' = hPcs /\ hSent' = hSent)]_vars

\* C6: an accepted ice-candidate or answer that reaches a viewer without a
\* PeerSession leaves it without one.
C6_OnlyOffersCreateViewerSession ==
    [][\A m \in ViewerSignalMsgs :
         (/\ m.typ \in {"ice-candidate", "answer"}
          /\ ~ViewerDiscards(m)
          /\ pcRef = 0
          /\ ViewerOnStreamSignal(m))
         => (pcRef' = 0 /\ vPcs' = vPcs)]_vars

\* C7: once the room-join request has failed, the page has never created a
\* socket and never emitted join_room (a socket, once created, is never
\* forgotten: it stays connecting, connected or closed).
C7_NoChannelIfJoinFails ==
    /\ hPhase = "join-rejected" =>
         (hSocket = "none" /\ ~BagIn(JoinRoom(RoomId, SellerId, "seller"), hSent))
    /\ vJoin \in {"error", "error-seen"} =>
         (vSocket = "none" /\ ~BagIn(JoinRoom(RoomId, ViewerId, "viewer"), vSent))

\* C8: each page's comment log holds at most 40 entries and is the last
\* min(n, 40) of the n comments of the room it has received, in arrival order.
C8_CommentLogIsLast40 ==
    /\ Len(hComments) <= 40
    /\ hComments = LastN(hAllComments, 40)
    /\ Len(vComments) <= 40
    /\ vComments = LastN(vAllComments, 40)
\* the viewer has received 42 comments and shows the last 40 of them
C8_Witness ==
    /\ Len(vAllComments) = 42
    /\ Len(vComments) = 40
    /\ vComments[1].message = 3
    /\ vComments[40].message = 42

\* C9: the featured-product list holds at most 10 entries with distinct ids
\* and the product shared last at its head; sharing a product whose id is
\* in the list puts it at the head and leaves the length and the order of
\* the other entries as they were.
C9_List ==
    /\ Len(featuredProducts) <= 10
    /\ \A i, j \in DOMAIN featuredProducts :
          featuredProducts[i].id = featuredProducts[j].id => i = j
    /\ shared # <<>> => featuredProducts[1] = shared[Len(shared)]
C9_ReshareStep ==
    (/\ Len(shared') = Len(shared) + 1
     /\ \E i \in DOMAIN featuredProducts :
           featuredProducts[i].id = shared'[Len(shared')].id)
    => LET p == shared'[Len(shared')] IN
       /\ Len(featuredProducts') = Len(featuredProducts)
       /\ featuredProducts'[1] = p
       /\ Others(featuredProducts', p.id) = Others(featuredProducts, p.id)
C9_FeaturedProducts == []C9_List /\ [][C9_ReshareStep]_vars
\* the list is full and its last entry has just been shared again, edited
C9_Witness ==
    /\ Len(featuredProducts) = 10
    /\ Len(shared) = 11
    /\ shared[11] = [id |-> 1, rev |-> 1]
    /\ featuredProducts[1] = [id |-> 1, rev |-> 1]
    /\ featuredProducts[2].id = 10

\* C10: participant_left for v in the host's room closes and unregisters
\* the session of v and nothing else: every other registry entry and every
\* other connection is as before, and nothing changes when v has no session.
C10_LeftStep ==
    (Handled("host", "participant_left") /\ lastIn'.roomId = RoomId)
    => LET v == lastIn'.user IN
       /\ peersRef'[v] = 0
       /\ \A w \in HostPeerIds \ {v} : peersRef'[w] = peersRef[w]
       /\ DOMAIN hPcs' = DOMAIN hPcs
       /\ \A i \in DOMAIN hPcs :
            hPcs'[i] = IF i = peersRef[v] THEN [hPcs[i] EXCEPT !.sig = "closed"]
                       ELSE hPcs[i]
       /\ peersRef[v] = 0 => (peersRef' = peersRef /\ hPcs' = hPcs)
       /\ UNCHANGED <<hTasks, hSent>>
C10_LeftRemovesExactlyThatSession == [][C10_LeftStep]_vars
\* viewers 20 and 21 both had a session when 20 left: 20's is closed and
\* gone, 21's is registered and open
C10_Witness ==
    /\ lastIn.dst = "host" /\ lastIn.ev = "participant_left"
    /\ lastIn.roomId = RoomId /\ lastIn.user = ViewerId
    /\ peersRef[ViewerId] = 0
    /\ \E i \in DOMAIN hPcs : hPcs[i].peer = ViewerId /\ hPcs[i].sig = "closed"
    /\ peersRef[OtherViewerId] # 0
    /\ hPcs[peersRef[OtherViewerId]].sig # "closed"

\* the messages the host has emitted to viewer v
HostSentTo(v) == CopiesIn(Offer(v), hSent) + CopiesIn(HostCandidate(v), hSent)

\* C11 as the spec states it: once participant_left for v has been handled,
\* the host never again emits a message addressed to v.
C11_NothingSentOnceLeft ==
    [][\A v \in HostPeerIds :
         hPeerLog[v].gone \in {"left", "back"} => HostSentTo(v)' = HostSentTo(v)]_vars

\* C11: from the handling of participant_left for v until the host accepts a
\* later participant_joined for v, the host emits no offer and no candidate
\* addressed to v, also when a participant_joined handler for v was suspended
\* in createOffer or setLocalDescription when v left.
C11_NothingSentWhileGone ==
    [][\A v \in HostPeerIds :
         hPeerLog[v].gone = "left" => HostSentTo(v)' = HostSentTo(v)]_vars
\* viewer 20 left while its participant_joined handler was suspended: the
\* handler has ended since, on a closed connection, and no offer went out
C11_Witness ==
    /\ hPeerLog[ViewerId].gone = "left"
    /\ hSocket = "connected"
    /\ hJoins[ViewerId] = 1
    /\ PendingFor(ViewerId) = {}
    /\ OffersTo(ViewerId) = 0
    /\ \E i \in DOMAIN hPcs : hPcs[i].peer = ViewerId /\ hPcs[i].sig = "closed"

\* the host's registry entry for v and every connection made for v are what
\* they were, and no connection was made for v
SameSession(v) ==
    /\ peersRef'[v] = peersRef[v]
    /\ \A i \in DOMAIN hPcs : hPcs[i].peer = v => hPcs'[i] = hPcs[i]
    /\ \A i \in DOMAIN hPcs' : hPcs'[i].peer = v => i \in DOMAIN hPcs
\* a continuation of a host handler for viewer t.user runs
HostSettles(t) ==
    \/ HostCreateOfferSettled(t)
    \/ HostSetLocalSettled(t)
    \/ HostSetRemoteSettled(t)
    \/ HostAddIceSettled(t)

\* C12: on the host, an event that concerns viewer w (participant_joined,
\* participant_left or a stream_signal from w, a continuation of the handler
\* of one of them, a candidate gathered for w) leaves the registry entry, the
\* negotiation state and the applied candidates of every other viewer's
\* session as they were.
C12_EventStep ==
    /\ (nIn' = nIn + 1 /\ lastIn'.dst = "host")
         => \A v \in HostPeerIds \ {lastIn'.user} : SameSession(v)
    /\ \A t \in HostTasks :
         HostSettles(t) => \A v \in HostPeerIds \ {t.user} : SameSession(v)
    /\ \A i \in DOMAIN hPcs :
         HostOnIceCandidate(i) => \A v \in HostPeerIds : SameSession(v)
C12_OtherSessionsUntouched == [][C12_EventStep]_vars
\* viewer 20's answer has been applied while viewer 21's session waits for
\* its own, untouched
C12_Witness ==
    /\ peersRef[ViewerId] # 0
    /\ hPcs[peersRef[ViewerId]].hasRemote
    /\ peersRef[OtherViewerId] # 0
    /\ hPcs[peersRef[OtherViewerId]].sig = "have-local-offer"
    /\ ~hPcs[peersRef[OtherViewerId]].hasRemote

Answer(v) == StreamSignal(RoomId, v, SellerId, "answer", TRUE)
\* a connection that has applied both descriptions and a remote candidate
Established(pc) ==
    pc.sig = "stable" /\ pc.hasLocal /\ pc.hasRemote /\ pc.cands >= 1
PairConnected ==
    /\ peersRef[ViewerId] # 0
    /\ Established(hPcs[peersRef[ViewerId]])
    /\ pcRef # 0
    /\ Established(vPcs[pcRef])

\* C13: seller 10 live in r1 and viewer 20 joining afterwards, all messages
\* relayed and all operations settling: eventually the seller's session for
\* 20 and the viewer's session have each applied the local and the remote
\* description and a candidate of the other side, and one offer (10 to 20)
\* and one answer (20 to 10) have been sent, never more.
C13_PairConnects ==
    /\ <>(/\ PairConnected
          /\ OffersTo(ViewerId) = 1
          /\ CopiesIn(Answer(ViewerId), vSent) = 1)
    /\ [](OffersTo(ViewerId) <= 1 /\ CopiesIn(Answer(ViewerId), vSent) <= 1)
\* both sides are connected and every message has been relayed
C13_Witness ==
    /\ PairConnected
    /\ hOut = <<>>
    /\ vOut = <<>>
    /\ hTasks = <<>>
    /\ vTasks = <<>>

\* C14: on each page, once a viewer_count_updated of its room has arrived,
\* the displayed viewer count is the viewerCount of the last one; nothing
\* else (the room-join response in particular) sets it to another value.
C14_CountIsLastPush ==
    /\ hPush # NoPush => hViewerCount = hPush
    /\ vPush # NoPush => vViewerCount = vPush

HostSignals == {m \in BagToSet(hSent) : m.ev = "stream_signal"}
ViewerSignals == {m \in BagToSet(vSent) : m.ev = "stream_signal"}

\* C15: the host emits offers and candidates only, holds no connection with a
\* remote offer applied and runs no answering operation; the viewer emits
\* answers and candidates only, holds no connection with a local offer and
\* runs no offering operation; an offer handed to the host and an answer
\* handed to the viewer start no operation.
C15_Roles ==
    /\ \A m \in HostSignals : m.typ \in {"offer", "ice-candidate"}
    /\ \A i \in DOMAIN hPcs : hPcs[i].sig # "have-remote-offer"
    /\ \A t \in HostTasks :
         t.op \in {"createOffer", "setLocalOffer", "setRemoteAnswer", "addIceCandidate"}
    /\ \A m \in ViewerSignals : m.typ \in {"answer", "ice-candidate"}
    /\ \A i \in DOMAIN vPcs : vPcs[i].sig # "have-local-offer"
    /\ \A t \in ViewerTasks :
         t.op \in {"setRemoteOffer", "createAnswer", "setLocalAnswer", "addIceCandidate"}
C15_OppositeDescriptionStep ==
    (/\ nIn' = nIn + 1
     /\ lastIn'.ev = "stream_signal"
     /\ lastIn'.typ = (IF lastIn'.dst = "host" THEN "offer" ELSE "answer"))
    => (hTasks' = hTasks /\ vTasks' = vTasks /\ hSent' = hSent /\ vSent' = vSent)
C15_RolesAreAsymmetric == []C15_Roles /\ [][C15_OppositeDescriptionStep]_vars
\* the host, having sent viewer 20 its offer, was handed an offer from 20
\* addressed to it: the session still waits for an answer
C15_Witness ==
    /\ lastIn.dst = "host" /\ lastIn.ev = "stream_signal"
    /\ lastIn.typ = "offer" /\ lastIn.toUserId = SellerId
    /\ lastIn.user = ViewerId
    /\ OffersTo(ViewerId) = 1
    /\ peersRef[ViewerId] # 0
    /\ hPcs[peersRef[ViewerId]].sig = "have-local-offer"
    /\ hTasks = <<>>

\* C16: a stream_signal of the page's room without toUserId is processed by
\* the page it reaches as one addressed to it: the session of its sender is
\* there afterwards, and the operation of its type has been started.
C16_BroadcastStep ==
    (/\ nIn' = nIn + 1
     /\ lastIn'.ev = "stream_signal"
     /\ lastIn'.roomId = RoomId
     /\ lastIn'.toUserId = NoUser)
    => IF lastIn'.dst = "host"
       THEN /\ peersRef'[lastIn'.user] # 0
            /\ Len(hTasks') = Len(hTasks) +
                 (IF lastIn'.typ \in {"answer", "ice-candidate"} THEN 1 ELSE 0)
       ELSE /\ pcRef' # 0
            /\ Len(vTasks') = Len(vTasks) +
                 (IF lastIn'.typ \in {"offer", "ice-candidate"} THEN 1 ELSE 0)
C16_BroadcastAccepted == [][C16_BroadcastStep]_vars

\* C17: every stream_signal a page has emitted carries the page's room, the
\* page's own id as fromUserId and, as toUserId, the remote participant of a
\* PeerSession of that page that has a local description: never no
\* recipient, never another participant.
C17_SignalsAddressed ==
    /\ \A m \in HostSignals :
         /\ m.roomId = RoomId
         /\ m.fromUserId = SellerId
         /\ m.toUserId # NoUser
         /\ \E i \in DOMAIN hPcs : hPcs[i].peer = m.toUserId /\ hPcs[i].hasLocal
    /\ \A m \in ViewerSignals :
         /\ m.roomId = RoomId
         /\ m.fromUserId = ViewerId
         /\ m.toUserId # NoUser
         /\ \E i \in DOMAIN vPcs : vPcs[i].peer = m.toUserId /\ vPcs[i].hasLocal
\* the host has sent viewer 21 an offer and a candidate while it also holds
\* a session for viewer 20
C17_Witness ==
    /\ OffersTo(OtherViewerId) = 1
    /\ CopiesIn(HostCandidate(OtherViewerId), hSent) = 1
    /\ peersRef[ViewerId] # 0
    /\ HostSentTo(ViewerId) = 0

\* setup() calls that may still acquire a stream
Acquiring ==
    (IF hPhase \in {"joining", "media"} THEN 1 ELSE 0) + BagCardinality(hStale)

\* C18: each run of the host effect acquires at most one stream; a stream's
\* tracks are stopped once and no more, not while the run that stored it is
\* live, and a stream is never left running once that run is torn down,
\* whatever the order of setup, teardown and re-run.
C18_MediaAcquiredAndReleasedOnce ==
    /\ Len(hStreams) + Acquiring <= hRuns
    /\ \A i \in DOMAIN hStreams :
         /\ hStreams[i].stops <= 1
         /\ hStreams[i].stops = 0 <=>
              (active /\ hPhase = "live" /\ i = Current(hStreams))

\* what HostRoomPage renders from its state: the viewer count, the comment
\* log and the local video
HostView ==
    [viewerCount |-> hViewerCount, comments |-> hComments,
     video |-> streamRef = "live"]
\* setup() was rejected by getUserMedia: no socket, no join_room, no session
C19_NoChannelAfterMediaFailure ==
    hPhase = "media-rejected" =>
        /\ hSocket = "none"
        /\ ~BagIn(JoinRoom(RoomId, SellerId, "seller"), hSent)
        /\ hPcs = <<>>
        /\ \A v \in HostPeerIds : peersRef[v] = 0
        /\ hTasks = <<>>

\* C19: when getUserMedia fails during the host's setup, no socket is
\* opened, no join_room is sent and no PeerSession is ever created, and the
\* failure shows: what the page renders changes when setup is rejected.
C19_MediaFailureSurfaced ==
    /\ []C19_NoChannelAfterMediaFailure
    /\ [][(hPhase = "media" /\ hPhase' = "media-rejected")
          => HostView' # HostView]_vars


\* the stream_signal messages the viewer has sent to r
ViewerSentTo(r) ==
    CopiesIn(StreamSignal(RoomId, ViewerId, r, "answer", TRUE), vSent)
        + CopiesIn(ViewerCandidate(r), vSent)

\* C20 as the spec states it: with the socket connected, a peer session for
\* r exists exactly when a stream_signal was sent to r or accepted from r on
\* that socket.
C20_SessionIffSignalled ==
    /\ hSocket = "connected" =>
         \A v \in HostPeerIds :
            peersRef[v] # 0 <=> (hPeerLog[v].heard \/ HostSentTo(v) > 0)
    /\ vSocket = "connected" =>
         (pcRef # 0 <=> (vHeard # {} \/ \E r \in ViewerPeerIds : ViewerSentTo(r) > 0))

\* C20: with the socket connected, the host holds a peer session for v
\* exactly when, since the later of the connection and the last
\* participant_left handled for v, it accepted a participant_joined of the
\* viewer v or a stream_signal from v; the viewer holds its peer session
\* exactly when it accepted a stream_signal on that socket.
C20_SessionIffContact ==
    /\ hSocket = "connected" =>
         \A v \in HostPeerIds : peersRef[v] # 0 <=> hPeerLog[v].contact
    /\ vSocket = "connected" => (pcRef # 0 <=> vHeard # {})

\* the host holds a session for a viewer it has exchanged no signal with,
\* and none for a viewer whose signal it accepted and who then left
C20_Witness ==
    /\ hSocket = "connected"
    /\ peersRef[ViewerId] # 0
    /\ ~hPeerLog[ViewerId].heard
    /\ HostSentTo(ViewerId) = 0
    /\ hPeerLog[OtherViewerId].heard
    /\ hPeerLog[OtherViewerId].gone = "left"
    /\ peersRef[OtherViewerId] = 0

\* the negotiation state of a connection, as its place in
\* created (1), offer-sent or offer-received (2), answered (3), connected (4)
NegotiationRank(pc) ==
    IF pc.sig \in {"have-local-offer", "have-remote-offer"} THEN 2
    ELSE IF pc.hasLocal /\ pc.hasRemote THEN (IF pc.cands >= 1 THEN 4 ELSE 3)
    ELSE 1

\* no step takes an open connection of `pcs` to an earlier negotiation state
MovesForward(pcs, next) ==
    \A i \in DOMAIN pcs :
        next[i].sig # "closed" => NegotiationRank(next[i]) >= NegotiationRank(pcs[i])

\* C21: the negotiation state of every PeerSession only moves forward along
\* created, offer-sent or offer-received, answered, connected: no step takes
\* a session of the host or of the viewer back to an earlier state.
C21_NegotiationMovesForward ==
    [][MovesForward(hPcs, hPcs') /\ MovesForward(vPcs, vPcs')]_vars

\* every connection of the host carries the local tracks, and a handler
\* suspended in offer generation works on the connection made for its viewer
C22_Sessions ==
    /\ \A i \in DOMAIN hPcs : hPcs[i].tracks
    /\ \A t \in HostTasks :
         t.op \in {"createOffer", "setLocalOffer"} =>
            t.pc \in DOMAIN hPcs /\ hPcs[t.pc].peer = t.user

\* a connection is created only while the stored stream is live; an accepted
\* participant_joined(v) leaves v registered with a connection that carries
\* the tracks and has createOffer pending, and sends nothing yet; an offer to
\* v is emitted by the step that sets it as the local description of v's
\* registered connection
C22_Steps ==
    /\ Len(hPcs') > Len(hPcs) => streamRef = "live" /\ active
    /\ \A v \in HostPeerIds :
         /\ hJoins'[v] > hJoins[v] =>
              /\ peersRef'[v] # 0
              /\ hPcs'[peersRef'[v]].tracks
              /\ hPcs'[peersRef'[v]].peer = v
              /\ Task("createOffer", peersRef'[v], v) \in {hTasks'[k] : k \in DOMAIN hTasks'}
              /\ hSent' = hSent
         /\ CopiesIn(Offer(v), hSent') > CopiesIn(Offer(v), hSent) =>
              /\ peersRef[v] # 0
              /\ peersRef'[v] = peersRef[v]
              /\ Task("setLocalOffer", peersRef[v], v) \in HostTasks
              /\ hPcs'[peersRef[v]].sig = "have-local-offer"
              /\ hPcs'[peersRef[v]].hasLocal
              /\ CopiesIn(Offer(v), hSent') = CopiesIn(Offer(v), hSent) + 1

\* C22: for an accepted participant_joined(viewer v) the host first has v's
\* PeerSession in the registry with the local tracks attached, then generates
\* the offer, then sets it as local description, then emits it addressed to
\* v; every session was created while the local stream was held and carries
\* its tracks, and no offer is emitted before its local description is set.
C22_OfferAfterSessionAndLocalDescription ==
    []C22_Sessions /\ [][C22_Steps]_vars

\* the offer to viewer 20 has been emitted from its registered session
C22_Witness ==
    /\ CopiesIn(Offer(ViewerId), hSent) = 1
    /\ peersRef[ViewerId] # 0
    /\ hPcs[peersRef[ViewerId]].hasLocal
    /\ hPcs[peersRef[ViewerId]].tracks

\* the answers the viewer has emitted
AnswerTo(r) == StreamSignal(RoomId, ViewerId, r, "answer", TRUE)
ViewerAnswers(sent) ==
    CopiesIn(AnswerTo(SellerId), sent) + CopiesIn(AnswerTo(OtherViewerId), sent)
\* the accepted offers whose handler has not ended yet
OffersInHand(q) ==
    Cardinality({k \in DOMAIN q :
                    q[k].op \in {"setRemoteOffer", "createAnswer", "setLocalAnswer"}})

\* an answer is emitted by the step that sets it as local description, on a
\* connection that holds the offer as remote description, addressed to the
\* sender of the offer this handler accepted
C23_AnswerFollowsOffer ==
    \A r \in ViewerPeerIds :
        CopiesIn(AnswerTo(r), vSent') > CopiesIn(AnswerTo(r), vSent) =>
            /\ CopiesIn(AnswerTo(r), vSent') = CopiesIn(AnswerTo(r), vSent) + 1
            /\ r \in vHeard
            /\ \E t \in ViewerTasks :
                 /\ t.op = "setLocalAnswer" /\ t.user = r
                 /\ vTasks' = Take(vTasks, t)
                 /\ vPcs[t.pc].sig = "have-remote-offer"
                 /\ vPcs'[t.pc] = SetLocalAnswer(vPcs[t.pc])

\* while the page is up, the handler of an accepted offer ends only by
\* emitting its answer
C23_EveryOfferAnswered ==
    (vSocket = "connected" /\ OffersInHand(vTasks') < OffersInHand(vTasks)) =>
        ViewerAnswers(vSent') = ViewerAnswers(vSent) + 1

\* C23: for every offer the viewer accepts it emits exactly one answer,
\* addressed to the offer's fromUserId, after it has set the remote
\* description, generated the answer and set it as local description; it
\* emits no answer without an accepted offer.
C23_OneAnswerPerOffer ==
    [][C23_AnswerFollowsOffer /\ C23_EveryOfferAnswered]_vars

\* a participant_joined of the room whose role is not viewer changes no
\* session and sends nothing; the viewer's session goes away only with the
\* page's socket, never on an inbound event
C24_Steps ==
    /\ \A m \in HostJoinedMsgs :
         (m.role # "viewer" /\ HostOnParticipantJoined(m)) =>
            UNCHANGED <<peersRef, hPcs, hTasks, hSent, hJoins>>
    /\ (nIn' = nIn + 1 /\ lastIn'.dst = "viewer" /\ pcRef # 0) =>
            (pcRef' = pcRef /\ vPcs' = vPcs)
    /\ (pcRef # 0 /\ pcRef' # pcRef) => (vSocket' = "closed" /\ nIn' = nIn)

\* C24: the host starts negotiation only for viewers: a participant_joined
\* of its room with another role creates no PeerSession and sends no offer;
\* and no inbound event, participant_left included, makes the viewer destroy
\* its session.
C24_NegotiationOnlyForViewers == [][C24_Steps]_vars

\* the connected host was handed a participant_joined of its room about user
\* 20 that it did not accept (role seller), and holds no session for 20
C24_Witness ==
    /\ hSocket = "connected"
    /\ lastIn.dst = "host" /\ lastIn.ev = "participant_joined"
    /\ lastIn.roomId = RoomId /\ lastIn.user = ViewerId
    /\ hJoins[ViewerId] = 0
    /\ peersRef[ViewerId] = 0
    /\ CopiesIn(Offer(ViewerId), hSent) = 0

\* the cleanup of the host effect has run and no run has followed it
HostTornDown == hRuns > 0 /\ ~active
\* the cleanup of the viewer's socket effect has run
ViewerTornDown == vSocket = "closed"

C25_NothingRemains ==
    /\ HostTornDown =>
         /\ \A v \in HostPeerIds : peersRef[v] = 0
         /\ \A i \in DOMAIN hPcs : hPcs[i].sig = "closed"
         /\ hSocket \in {"none", "closed"}
    /\ ViewerTornDown =>
         /\ pcRef = 0
         /\ \A i \in DOMAIN vPcs : vPcs[i].sig = "closed"

\* whatever still runs after the teardown creates no connection and sends
\* nothing
C25_NothingComesBack ==
    /\ HostTornDown => (hPcs' = hPcs /\ hSent' = hSent)
    /\ ViewerTornDown => (vPcs' = vPcs /\ vSent' = vSent)

\* C25: once the teardown of a page has run no PeerSession remains: the host
\* registry is empty and every host connection closed, the viewer's session
\* is closed and cleared, the socket is disconnected, and no continuation of
\* a handler that was suspended at the teardown creates a PeerSession or
\* opens the channel again.
C25_TeardownLeavesNothing ==
    []C25_NothingRemains /\ [][C25_NothingComesBack]_vars

\* the host page was torn down holding a session with a handler suspended
C25_Witness ==
    /\ HostTornDown
    /\ hSocket = "closed"
    /\ Len(hPcs) >= 1
    /\ hTasks # <<>>

\* the step settles the pending addIceCandidate call t of queue q
SettlesAddIce(q, next, t) == t.op = "addIceCandidate" /\ next = Take(q, t)

\* an addIceCandidate call settles only on a connection whose remote
\* description is set, and only such a connection takes a candidate
C26_Steps ==
    /\ \A t \in ViewerTasks :
         SettlesAddIce(vTasks, vTasks', t) => vPcs[t.pc].hasRemote
    /\ \A t \in HostTasks :
         SettlesAddIce(hTasks, hTasks', t) => hPcs[t.pc].hasRemote
    /\ \A i \in DOMAIN vPcs : vPcs'[i].cands > vPcs[i].cands => vPcs[i].hasRemote
    /\ \A i \in DOMAIN hPcs : hPcs'[i].cands > hPcs[i].cands => hPcs[i].hasRemote

C27_NoSessionWhileGone ==
    \A v \in HostPeerIds : hPeerLog[v].gone = "left" => peersRef[v] = 0

\* getUserMedia resolves for a setup() whose run was cleaned up meanwhile:
\* the page's last run, or a run that a later one has superseded
LateStream ==
    /\ Len(hStreams') > Len(hStreams)
    /\ ~active \/ BagCardinality(hStale') < BagCardinality(hStale)

C28_Steps ==
    /\ LateStream =>
         /\ hStreams' = Append(hStreams, Stream(FALSE, 1))
         /\ UNCHANGED <<streamRef, hSocket, peersRef, hPcs, hSent>>
    /\ ~active => hSocket' \in {hSocket, "closed"}
    /\ (hStale' # hStale /\ hRuns' = hRuns) =>
         UNCHANGED <<streamRef, hSocket, peersRef, hPcs, hSent, hPhase>>

\* C28: when the host page is torn down, or its effect re-runs, while setup
\* is suspended in the join request or in getUserMedia, that setup never
\* opens a socket or registers a handler, and a stream it gets afterwards is
\* stopped at once, neither stored nor attached.
C28_LateSetupOpensNothing == [][C28_Steps]_vars

\* the page was torn down during setup; the stream that arrived afterwards
\* was stopped and no socket was ever made
C28_Witness ==
    /\ hPhase = "aborted"
    /\ hSocket = "none"
    /\ hStreams = <<Stream(FALSE, 1)>>

\* the join request has failed and the socket effect has re-run on it
C29_AfterError ==
    vJoin = "error-seen" =>
        /\ vSocket = "closed"
        /\ pcRef = 0
        /\ \A i \in DOMAIN vPcs : vPcs[i].sig = "closed"

\* while the error lasts no socket is opened, no session made, nothing sent
C29_WhileError ==
    vJoin = "error-seen" =>
        (vSocket' = vSocket /\ pcRef' = 0 /\ vPcs' = vPcs /\ vSent' = vSent)

\* C29: on the viewer, once the join request is in its error state and the
\* socket effect has re-run, no socket is connected and no PeerSession
\* exists: the socket opened while the join was pending is disconnected and
\* its session closed, and no socket is opened while the error lasts.
C29_ErrorClosesChannel == []C29_AfterError /\ [][C29_WhileError]_vars

\* the join failed after the viewer had connected and built a session
C29_Witness ==
    /\ vJoin = "error-seen"
    /\ BagIn(JoinRoom(RoomId, ViewerId, "viewer"), vSent)
    /\ Len(vPcs) = 1
    /\ vPcs[1].sig = "closed"

\* the send_comment messages a page has handed to its socket
HostComments == CommentsIn(hSent (+) hBuffered)
ViewerComments == CommentsIn(vSent (+) vBuffered)
\* the text holds a character that is not a blank
NonBlank(t) == \E k \in DOMAIN t : t[k] # " "
\* e is t without the blanks at its two ends
Stripped(e, t) ==
    /\ e # <<>> => (Head(e) # " " /\ e[Len(e)] # " ")
    /\ \E i, j \in 0 .. Len(t) :
         /\ i + Len(e) + j = Len(t)
         /\ \A k \in 1 .. Len(t) :
              t[k] = IF k > i /\ k <= i + Len(e) THEN e[k - i] ELSE " "
\* the bag `next` is `sent` with one send_comment of user u more, which
\* carries the page's room and the typed text without the blanks at its ends
OneCommentMore(sent, next, u, typed) ==
    \E e \in Texts :
        /\ Stripped(e, typed)
        /\ next = sent (+) One(SendComment(RoomId, u, Code(e)))

C30_Steps ==
    /\ HostSendComment =>
         /\ IF NonBlank(hMessage) /\ hSocket # "none"
            THEN OneCommentMore(HostComments, HostComments', SellerId, hMessage)
            ELSE UNCHANGED vars
         /\ hComments' = hComments
    /\ ViewerSendComment =>
         /\ IF NonBlank(vMessage) /\ vSocket # "none"
            THEN OneCommentMore(ViewerComments, ViewerComments', ViewerId, vMessage)
            ELSE UNCHANGED vars
         /\ vComments' = vComments
    /\ HostComments' # HostComments => HostSendComment
    /\ ViewerComments' # ViewerComments => ViewerSendComment
    /\ hComments' # hComments =>
         (nIn' = nIn + 1 /\ lastIn' = [dst |-> "host", ev |-> "comment_created",
                                       roomId |-> RoomId, user |-> lastIn'.user,
                                       toUserId |-> NoUser, typ |-> ""])
    /\ vComments' # vComments =>
         (nIn' = nIn + 1 /\ lastIn' = [dst |-> "viewer", ev |-> "comment_created",
                                       roomId |-> RoomId, user |-> lastIn'.user,
                                       toUserId |-> NoUser, typ |-> ""])

\* C30: on both pages sendComment hands the socket exactly one send_comment
\* with the page's room, the page's user id and the text without the blanks
\* at its ends when the text is not blank and the socket exists, and does
\* nothing otherwise; it never appends to the comment log, which changes
\* only when a comment_created of the room is received.
C30_SendCommentEmitsOnce == [][C30_Steps]_vars

\* the viewer has sent "a a", typed with blanks around it or not, and its
\* input is empty again and its comment log still empty
C30_Witness ==
    /\ vSocket = "connected"
    /\ BagIn(SendComment(RoomId, ViewerId, Code(<<"a", " ", "a">>)), vSent)
    /\ vMessage = <<>>
    /\ vComments = <<>>

====
